---- MODULE Spec2Model ----
(***************************************************************************)
(* Model of bot-telegram-daemon's ingestion and aggregation core:          *)
(*   src/src/ws_client.py   BotWebSocketClient (one task per endpoint)     *)
(*   src/src/monitor.py     Monitor (event routing, cooldown, digest loop) *)
(*   src/src/bot_state.py   BotState (per-endpoint cache)                  *)
(*   src/src/models.py      parse_* (payload parsing)                      *)
(*   src/src/formatter.py   format_periodic_update (what a digest reads)   *)
(*   src/src/telegram_bot.py  send_* (where a send suspends the caller)    *)
(*                                                                         *)
(* asyncio runs one task at a time and switches tasks only at an await     *)
(* that really suspends (network connect/read, sleep, Telegram send), so   *)
(* every action below is the code between two such suspension points.      *)
(***************************************************************************)
EXTENDS Integers, Sequences, FiniteSets, TLC

VARIABLES
    floor,            \* ConnectionConfig.reconnect_delay_seconds
    ceiling,          \* ConnectionConfig.max_reconnect_delay_seconds
    max_queue,        \* frames the websockets library queues per connection
    pc,               \* pc[l]: where client l's run() task is suspended
    delay,            \* BotWebSocketClient._delay
    stopped,          \* BotWebSocketClient._stopped
    inbox,            \* frames received on l's open connection, not yet read
    bots,             \* Monitor.bots: label -> BotState
    error_cooldowns,  \* Monitor._error_cooldowns: label -> time of last alert
    digest_pc,        \* where _periodic_report_loop is suspended
    now,              \* datetime.now(), in ticks
    fails,            \* history: failed connection attempts since the last success
    lost,             \* history: an established connection was lost since the last success
    digest_read,      \* history: the counters the digest being sent has reported
    initial_sent,     \* history: number of send_initial_summary calls per label
    bad_seen,         \* history: an undecodable frame was dropped on l's open connection
    qualified,        \* history: a parsed summary was dispatched for l with info present
    alerts_sent,      \* history: number of send_error_alert calls per label
    last_alert,       \* history: time of the last send_error_alert call per label
    digest_report,    \* history: the lines of the digest being sent
    in_flight,        \* history: the notification l's dispatch is sending, or ""
    last_delivered,   \* history: time stamped on the last alert whose send succeeded
    arrivals,         \* history: frames in the order l's connection received them
    out               \* history: callbacks and notifications of the latest step

vars == << floor, ceiling, max_queue, pc, delay, stopped, inbox, bots, error_cooldowns,
           digest_pc, now, fails, lost, digest_read, initial_sent, bad_seen,
           qualified, alerts_sent, last_alert, digest_report, in_flight,
           last_delivered, arrivals, out >>

----------------------------------------------------------------------------
(* Bounds of the model *)

\* longest run of failed connection attempts that is explored
MaxFails == 3
\* frames a connection queues before the client reads them, where the
\* queue itself is examined
MaxQueue == 2
\* last tick of the clock
MaxTime == 3
\* the history counter initial_sent saturates here
MaxCount == 2

----------------------------------------------------------------------------
(* Values *)

\* the labels an endpoint can carry
Labels == {"A", "B"}

\* Optional[T]: None is the empty sequence, a present value is <<v>>
None == << >>

Some(v) == << v >>

IsNone(o) == o = << >>

Get(o) == o[1]

Min(a, b) == IF a <= b THEN a ELSE b

RECURSIVE Pow2(_)
Pow2(n) == IF n <= 0 THEN 1 ELSE 2 * Pow2(n - 1)

\* BotState(label, url) as Monitor.run constructs it
BotState == [ connected |-> FALSE,
              last_connected_at |-> None,
              info |-> None,
              config |-> None,
              summary |-> None,
              last_summary_at |-> None,
              last_error |-> None,
              last_error_at |-> None,
              prev_roundtrips |-> 0,
              prev_matched_profit |-> 0,
              prev_total_fees |-> 0,
              initial_summary_sent |-> FALSE ]

----------------------------------------------------------------------------
(* Payloads and parsing (models.py).  A payload is the `data` member of a  *)
(* frame: py is its Python type, the other fields are the keys it holds.   *)

\* ReportingConfig.error_cooldown_seconds, in ticks
error_cooldown_seconds == 2

InfoOk == [py |-> "dict", network |-> "mainnet", exchange |-> "hyperliquid"]

InfoNoExchange == [py |-> "dict", network |-> "mainnet"]

ConfigOk == [py |-> "dict", type |-> "spot_grid", symbol |-> "ETH"]

Spot(rt, mp, tf) == [py |-> "dict", symbol |-> "ETH", base_balance |-> 1,
                     roundtrips |-> rt, matched_profit |-> mp, total_fees |-> tf]

Perp(rt, mp, tf) == [py |-> "dict", symbol |-> "HYPE", margin_balance |-> 1,
                     roundtrips |-> rt, matched_profit |-> mp, total_fees |-> tf]

SpotNoRoundtrips == [py |-> "dict", symbol |-> "ETH", base_balance |-> 1,
                     matched_profit |-> 10, total_fees |-> 1]

ErrorText == [py |-> "str", value |-> "boom"]

\* an error payload that is a JSON object
ErrorDict == [py |-> "dict", code |-> 500]

\* config payloads without the type member, without the symbol member
ConfigNoType == [py |-> "dict", symbol |-> "ETH"]

ConfigNoSymbol == [py |-> "dict", type |-> "spot_grid"]

\* the empty JSON object {} and the empty JSON string ""
EmptyDict == [py |-> "dict"]

EmptyText == [py |-> "str", value |-> ""]

\* a spot summary whose counters are JSON strings ("1", "10.0", "1.0"):
\* counters_py is the Python type json.loads gives the three values, which
\* the parser stores as they are (the dataclass does not convert)
SpotTextCounters == [py |-> "dict", symbol |-> "ETH", base_balance |-> 1,
                     roundtrips |-> 1, matched_profit |-> 10, total_fees |-> 1,
                     counters_py |-> "str"]

\* data[k] for every k of keys succeeds (no KeyError, no TypeError)
HasKeys(data, keys) == data.py = "dict" /\ keys \subseteq DOMAIN data

\* the keys parse_spot_grid_summary reads with data[...]; state, uptime,
\* position_size, total_profit, grid_count, grid_range_low, grid_range_high
\* and quote_balance are read the same way and stand with symbol here
SpotRequired == {"symbol", "matched_profit", "total_fees", "roundtrips", "base_balance"}

\* likewise for parse_perp_grid_summary (position_side, leverage, grid_bias
\* stand with margin_balance)
PerpRequired == {"symbol", "matched_profit", "total_fees", "roundtrips", "margin_balance"}

\* a parse result: ok = FALSE is a raised exception
Raised == [ok |-> FALSE, value |-> None]

Parsed(v) == [ok |-> TRUE, value |-> Some(v)]

parse_system_info(data) ==
    IF HasKeys(data, {"network", "exchange"})
    THEN Parsed([network |-> data.network, exchange |-> data.exchange])
    ELSE Raised

GetOr(data, key, default) == IF key \in DOMAIN data THEN data[key] ELSE default

parse_strategy_config(data) ==
    IF data.py = "dict"
    THEN Parsed([type |-> GetOr(data, "type", "unknown"),
                 symbol |-> GetOr(data, "symbol", "unknown"),
                 raw |-> data])
    ELSE Raised

parse_spot_grid_summary(data) ==
    IF HasKeys(data, SpotRequired)
    THEN Parsed([tag |-> "spot", symbol |-> data.symbol,
                 roundtrips |-> data.roundtrips,
                 matched_profit |-> data.matched_profit,
                 total_fees |-> data.total_fees,
                 numeric |-> GetOr(data, "counters_py", "number") # "str"])
    ELSE Raised

parse_perp_grid_summary(data) ==
    IF HasKeys(data, PerpRequired)
    THEN Parsed([tag |-> "perp", symbol |-> data.symbol,
                 roundtrips |-> data.roundtrips,
                 matched_profit |-> data.matched_profit,
                 total_fees |-> data.total_fees,
                 numeric |-> GetOr(data, "counters_py", "number") # "str"])
    ELSE Raised

----------------------------------------------------------------------------
(* Monitor: state updates (monitor.py) *)

\* mutant of snapshot_state: the counters are added to the baseline
snapshot_state_accumulating(b) ==
    IF IsNone(b.summary) THEN b
    ELSE [b EXCEPT !.prev_roundtrips = @ + Get(b.summary).roundtrips,
                   !.prev_matched_profit = @ + Get(b.summary).matched_profit,
                   !.prev_total_fees = @ + Get(b.summary).total_fees]

\* _snapshot_state
snapshot_state(b) ==
    IF IsNone(b.summary) THEN b
    ELSE [b EXCEPT !.prev_roundtrips = Get(b.summary).roundtrips,
                   !.prev_matched_profit = Get(b.summary).matched_profit,
                   !.prev_total_fees = Get(b.summary).total_fees]

\* mutant of handle_connect: a new connection clears the one-shot latch
handle_connect_clearing_latch(b, t) ==
    [b EXCEPT !.connected = TRUE, !.last_connected_at = Some(t),
              !.initial_summary_sent = FALSE]

\* mutant of handle_connect: the flag is set without the timestamp
handle_connect_without_stamp(b, t) == [b EXCEPT !.connected = TRUE]

\* mutant of handle_connect: the timestamp is set without the flag
handle_connect_stamp_only(b, t) == [b EXCEPT !.last_connected_at = Some(t)]

\* Monitor._handle_connect, for a configured label
handle_connect(b, t) ==
    [b EXCEPT !.connected = TRUE, !.last_connected_at = Some(t)]

\* mutant of handle_disconnect: the cached summary is dropped with the connection
handle_disconnect_clearing_summary(b) ==
    [b EXCEPT !.connected = FALSE, !.summary = None, !.last_summary_at = None]

\* Monitor._handle_disconnect, for a configured label
handle_disconnect(b) == [b EXCEPT !.connected = FALSE]

\* mutant of maybe_send_initial_summary: the latch is set without the snapshot
maybe_send_initial_summary_no_snapshot(b) ==
    IF b.initial_summary_sent THEN [state |-> b, sent |-> FALSE]
    ELSE IF IsNone(b.info) \/ IsNone(b.summary) THEN [state |-> b, sent |-> FALSE]
    ELSE [state |-> [b EXCEPT !.initial_summary_sent = TRUE], sent |-> TRUE]

\* Monitor._maybe_send_initial_summary: the new state, and whether
\* send_initial_summary is called
maybe_send_initial_summary(b) ==
    IF b.initial_summary_sent THEN [state |-> b, sent |-> FALSE]
    ELSE IF IsNone(b.info) \/ IsNone(b.summary) THEN [state |-> b, sent |-> FALSE]
    ELSE [state |-> snapshot_state([b EXCEPT !.initial_summary_sent = TRUE]),
          sent |-> TRUE]

\* mutant of maybe_send_error_alert: an error exactly one window after the
\* last alert is still suppressed
maybe_send_error_alert_inclusive(last_sent, t) ==
    IF ~IsNone(last_sent) /\ (t - Get(last_sent)) <= error_cooldown_seconds
    THEN [cooldown |-> last_sent, sent |-> FALSE]
    ELSE [cooldown |-> Some(t), sent |-> TRUE]

\* Monitor._maybe_send_error_alert: the new cooldown entry of the label, and
\* whether send_error_alert is called
maybe_send_error_alert(last_sent, t) ==
    IF ~IsNone(last_sent) /\ (t - Get(last_sent)) < error_cooldown_seconds
    THEN [cooldown |-> last_sent, sent |-> FALSE]
    ELSE [cooldown |-> Some(t), sent |-> TRUE]

\* mutant of on_summary: a summary already held is kept
on_summary_first_wins(b, cd, parsed, l, t) ==
    IF ~parsed.ok \/ ~IsNone(b.summary)
    THEN [state |-> b, cooldown |-> cd, notes |-> << >>]
    ELSE LET r == maybe_send_initial_summary(
                      [b EXCEPT !.summary = parsed.value,
                                !.last_summary_at = Some(t)])
         IN [state |-> r.state, cooldown |-> cd,
             notes |-> IF r.sent THEN << <<"initial_summary", l>> >> ELSE << >>]

\* mutant of on_summary: the arrival of a summary is stamped before it is parsed
on_summary_stamping_failures(b, cd, parsed, l, t) ==
    IF ~parsed.ok
    THEN [state |-> [b EXCEPT !.last_summary_at = Some(t)], cooldown |-> cd,
          notes |-> << >>]
    ELSE LET r == maybe_send_initial_summary(
                      [b EXCEPT !.summary = parsed.value,
                                !.last_summary_at = Some(t)])
         IN [state |-> r.state, cooldown |-> cd,
             notes |-> IF r.sent THEN << <<"initial_summary", l>> >> ELSE << >>]

\* mutant of on_summary: every summary that parses resets the baseline
on_summary_snapshotting_always(b, cd, parsed, l, t) ==
    IF ~parsed.ok THEN [state |-> b, cooldown |-> cd, notes |-> << >>]
    ELSE LET r == maybe_send_initial_summary(
                      [b EXCEPT !.summary = parsed.value,
                                !.last_summary_at = Some(t)])
         IN [state |-> snapshot_state(r.state), cooldown |-> cd,
             notes |-> IF r.sent THEN << <<"initial_summary", l>> >> ELSE << >>]

\* the summary branches of _handle_event
on_summary(b, cd, parsed, l, t) ==
    IF ~parsed.ok THEN [state |-> b, cooldown |-> cd, notes |-> << >>]
    ELSE LET r == maybe_send_initial_summary(
                      [b EXCEPT !.summary = parsed.value,
                                !.last_summary_at = Some(t)])
         IN [state |-> r.state, cooldown |-> cd,
             notes |-> IF r.sent THEN << <<"initial_summary", l>> >> ELSE << >>]

\* mutant of on_error: the error is stamped only when its alert is sent
on_error_stamping_when_sent(b, cd, data, l, t) ==
    LET error_msg == IF data.py = "str" THEN data.value ELSE "str(data)"
        r == maybe_send_error_alert(cd, t)
    IN [state |-> IF r.sent THEN [b EXCEPT !.last_error = Some(error_msg),
                                           !.last_error_at = Some(t)]
                  ELSE b,
        cooldown |-> r.cooldown,
        notes |-> IF r.sent THEN << <<"error_alert", l>> >> ELSE << >>]

\* the error branch of _handle_event
on_error(b, cd, data, l, t) ==
    LET error_msg == IF data.py = "str" THEN data.value ELSE "str(data)"
        r == maybe_send_error_alert(cd, t)
    IN [state |-> [b EXCEPT !.last_error = Some(error_msg),
                            !.last_error_at = Some(t)],
        cooldown |-> r.cooldown,
        notes |-> IF r.sent THEN << <<"error_alert", l>> >> ELSE << >>]

\* mutant of handle_event: a kind without a branch is handled as an error
handle_event_ignored_as_error(b, cd, event_type, data, l, t) ==
    CASE event_type = "info" ->
           LET p == parse_system_info(data)
           IN [state |-> IF p.ok THEN [b EXCEPT !.info = p.value] ELSE b,
               cooldown |-> cd, notes |-> << >>]
      [] event_type = "config" ->
           LET p == parse_strategy_config(data)
           IN [state |-> IF p.ok THEN [b EXCEPT !.config = p.value] ELSE b,
               cooldown |-> cd, notes |-> << >>]
      [] event_type = "spot_grid_summary" ->
           on_summary(b, cd, parse_spot_grid_summary(data), l, t)
      [] event_type = "perp_grid_summary" ->
           on_summary(b, cd, parse_perp_grid_summary(data), l, t)
      [] OTHER -> on_error(b, cd, data, l, t)

\* Monitor._handle_event for a configured label l with state b and cooldown
\* entry cd: the new state, the new cooldown entry and the notifications it
\* sends.  An exception raised by a parser is caught: nothing is assigned.
handle_event(b, cd, event_type, data, l, t) ==
    CASE event_type = "info" ->
           LET p == parse_system_info(data)
           IN [state |-> IF p.ok THEN [b EXCEPT !.info = p.value] ELSE b,
               cooldown |-> cd, notes |-> << >>]
      [] event_type = "config" ->
           LET p == parse_strategy_config(data)
           IN [state |-> IF p.ok THEN [b EXCEPT !.config = p.value] ELSE b,
               cooldown |-> cd, notes |-> << >>]
      [] event_type = "spot_grid_summary" ->
           on_summary(b, cd, parse_spot_grid_summary(data), l, t)
      [] event_type = "perp_grid_summary" ->
           on_summary(b, cd, parse_perp_grid_summary(data), l, t)
      [] event_type = "error" -> on_error(b, cd, data, l, t)
      [] OTHER -> [state |-> b, cooldown |-> cd, notes |-> << >>]

\* the classes derived from Exception that the handlers meet
ExceptionClasses == {"KeyError", "TypeError", "ValueError", "AttributeError",
                     "TelegramError"}

\* the exception the body of _handle_event's try raises for this event, ""
\* when it raises none: data[...] of a missing key is a KeyError, of a
\* non-dict a TypeError, data.get of a non-dict an AttributeError
handler_exception(event_type, data) ==
    LET failed == CASE event_type = "info" -> ~parse_system_info(data).ok
                    [] event_type = "config" -> ~parse_strategy_config(data).ok
                    [] event_type = "spot_grid_summary" ->
                           ~parse_spot_grid_summary(data).ok
                    [] event_type = "perp_grid_summary" ->
                           ~parse_perp_grid_summary(data).ok
                    [] OTHER -> FALSE
    IN IF ~failed THEN ""
       ELSE IF data.py = "dict" THEN "KeyError"
       ELSE IF event_type = "config" THEN "AttributeError"
       ELSE "TypeError"

\* mutant of caught_by_handle_event: only ValueError is caught
caught_by_handle_event_narrow(exc) == exc = "ValueError"

\* `except Exception` of _handle_event (monitor.py:111)
caught_by_handle_event(exc) == exc \in ExceptionClasses

\* `except Exception` of _send_safe (telegram_bot.py:152)
caught_by_send_safe(exc) == exc \in ExceptionClasses

\* the event makes _handle_event raise into its caller
escapes(event_type, data) ==
    LET exc == handler_exception(event_type, data)
    IN exc # "" /\ ~caught_by_handle_event(exc)

\* mutant of Monitor_handle_event: a label without a state gets a fresh one
Monitor_handle_event_creating(bs, cds, label, event_type, data, t) ==
    LET known == label \in DOMAIN bs
        r == handle_event(IF known THEN bs[label] ELSE BotState,
                          IF known THEN cds[label] ELSE None,
                          event_type, data, label, t)
    IN [bots |-> [x \in DOMAIN bs \cup {label} |->
                     IF x = label THEN r.state ELSE bs[x]],
        cooldowns |-> [x \in DOMAIN cds \cup {label} |->
                     IF x = label THEN r.cooldown ELSE cds[x]],
        notes |-> r.notes,
        raised |-> escapes(event_type, data)]

\* Monitor._handle_event for any label: `state = self.bots.get(label)`,
\* `if not state: return`, then the routing above
Monitor_handle_event(bs, cds, label, event_type, data, t) ==
    IF label \notin DOMAIN bs
    THEN [bots |-> bs, cooldowns |-> cds, notes |-> << >>, raised |-> FALSE]
    ELSE LET r == handle_event(bs[label], cds[label], event_type, data, label, t)
         IN [bots |-> [bs EXCEPT ![label] = r.state],
             cooldowns |-> [cds EXCEPT ![label] = r.cooldown],
             notes |-> r.notes,
             raised |-> escapes(event_type, data)]

\* Monitor._handle_connect for any label
Monitor_handle_connect(bs, label, t) ==
    IF label \in DOMAIN bs
    THEN [bs EXCEPT ![label] = handle_connect(bs[label], t)]
    ELSE bs

\* Monitor._handle_disconnect for any label
Monitor_handle_disconnect(bs, label) ==
    IF label \in DOMAIN bs
    THEN [bs EXCEPT ![label] = handle_disconnect(bs[label])]
    ELSE bs

\* mutant of format_periodic_update: the fees are reported as a total, not
\* against the baseline
format_periodic_update_total_fees(b) ==
    IF ~b.connected THEN Some([kind |-> "disconnected"])
    ELSE IF IsNone(b.summary) THEN None
    ELSE LET s == Get(b.summary)
             matched_delta == s.matched_profit - b.prev_matched_profit
             fees_delta == s.total_fees
         IN Some([kind |-> "delta",
                  new_trades |-> s.roundtrips - b.prev_roundtrips,
                  matched_delta |-> matched_delta,
                  fees_delta |-> fees_delta,
                  net_earned |-> matched_delta - fees_delta])

\* formatter.format_periodic_update: None, or the line of the digest
format_periodic_update(b) ==
    IF ~b.connected THEN Some([kind |-> "disconnected"])
    ELSE IF IsNone(b.summary) THEN None
    ELSE LET s == Get(b.summary)
             matched_delta == s.matched_profit - b.prev_matched_profit
             fees_delta == s.total_fees - b.prev_total_fees
         IN Some([kind |-> "delta",
                  new_trades |-> s.roundtrips - b.prev_roundtrips,
                  matched_delta |-> matched_delta,
                  fees_delta |-> fees_delta,
                  net_earned |-> matched_delta - fees_delta])

\* format_periodic_update raises: `s.roundtrips - state.prev_roundtrips` of a
\* counter that is no number is a TypeError
format_periodic_update_raises(b) ==
    b.connected /\ ~IsNone(b.summary) /\ ~Get(b.summary).numeric

\* format_bot_status raises: `s.total_profit >= 0` and `:.2f` of a counter
\* that is no number
format_bot_status_raises(b) ==
    b.connected /\ ~IsNone(b.summary) /\ ~Get(b.summary).numeric

\* TelegramBot.send_periodic_update: the labels with a line (sections)
sections(bs) == {l \in DOMAIN bs : ~IsNone(format_periodic_update(bs[l]))}

----------------------------------------------------------------------------
\* the configured endpoints (DaemonConfig.bots), fixed by Monitor.run
Configured == DOMAIN bots

(* Frames: what one websocket message holds (ws_client.py:64-67) *)

\* a message that is a JSON object with these event_type and data members
Frame(event_type, data) ==
    [json |-> "object", event_type |-> event_type, data |-> Some(data)]

\* a message json.loads rejects
BadJson == [json |-> "invalid", event_type |-> "", data |-> None]

\* a message that is valid JSON but no object (an array, a number, ...)
NonObject == [json |-> "non_object", event_type |-> "", data |-> None]

\* a JSON object without event_type
NoEventType == [json |-> "object", event_type |-> "", data |-> Some(InfoOk)]

\* a JSON object without data (or with data null)
NoData == [json |-> "object", event_type |-> "info", data |-> None]

MarketUpdate == Frame("market_update", [py |-> "dict", price |-> 100])

\* the frames of the connection-lifecycle specification
ClientFrames == {BadJson, NonObject, NoEventType, MarketUpdate}

\* the frames of the summary/digest specification
SummaryFrames == {Frame("info", InfoOk),
                  Frame("spot_grid_summary", Spot(1, 10, 1)),
                  Frame("spot_grid_summary", Spot(2, 25, 3)),
                  Frame("spot_grid_summary", SpotNoRoundtrips)}

\* the frames of the dispatch specification: an event whose payload does
\* not parse, one that does, and one that sends a notification
DispatchFrames == {Frame("info", InfoNoExchange), Frame("info", InfoOk),
                   Frame("error", ErrorText)}

\* the frames of the delta specification, amounts in hundredths as the
\* digest prints them (:.2f): 30.00/2.00 then 45.23/3.12 as in
\* tests/test_formatter.py, and a summary whose matched profit went down
DeltaFrames == {Frame("info", InfoOk),
                Frame("spot_grid_summary", Spot(10, 3000, 200)),
                Frame("spot_grid_summary", Spot(12, 4523, 312)),
                Frame("spot_grid_summary", Spot(12, 2900, 312))}

\* the frames of the error-alert specification
ErrorFrames == {Frame("error", ErrorText), Frame("info", InfoOk)}

\* the kinds _handle_event has a branch for (monitor.py:93-105)
HandledKinds == {"info", "config", "spot_grid_summary", "perp_grid_summary",
                 "error"}

\* frames of the kinds _handle_event has no branch for
IgnoredFrames == {MarketUpdate,
                  Frame("order_update", [py |-> "dict", oid |-> 7]),
                  Frame("grid_state", [py |-> "dict", zones |-> 3]),
                  Frame("heartbeat", EmptyText)}

\* frames whose payload is present but empty
EmptyPayloadFrames == {Frame("info", EmptyDict), Frame("error", EmptyText)}

\* the frames of the event-routing specification: every kind, each with a
\* payload that parses and payloads that lack members or are empty
EventFrames == IgnoredFrames \cup EmptyPayloadFrames \cup
               {NoEventType, NoData,
                Frame("info", InfoOk), Frame("info", InfoNoExchange),
                Frame("config", ConfigOk), Frame("config", ConfigNoType),
                Frame("config", ConfigNoSymbol), Frame("config", ErrorText),
                Frame("spot_grid_summary", Spot(1, 10, 1)),
                Frame("spot_grid_summary", SpotNoRoundtrips),
                Frame("perp_grid_summary", Perp(1, 5, 2)),
                Frame("perp_grid_summary", Spot(1, 10, 1)),
                Frame("error", ErrorText)}

\* the frames of the error-stamp specification: a text and an object
ErrorStampFrames == {Frame("error", ErrorText), Frame("error", ErrorDict)}

\* the frames of the digest-failure specification
DigestFailFrames == {Frame("info", InfoOk),
                     Frame("spot_grid_summary", Spot(1, 10, 1)),
                     Frame("spot_grid_summary", SpotTextCounters)}

AllFrames == ClientFrames \cup SummaryFrames \cup ErrorFrames \cup
             {NoData, Frame("info", InfoNoExchange), Frame("config", ConfigOk),
              Frame("perp_grid_summary", Perp(1, 5, 2))}

----------------------------------------------------------------------------
(* BotWebSocketClient.run (ws_client.py:43-94), one action per stretch of  *)
(* code between two suspensions                                            *)

\* `while not self._stopped`: the next suspension of the task
loop_top(is_stopped) == IF is_stopped THEN "done" ELSE "connecting"

\* the task starts: the first test of the loop
Start(l) ==
    /\ pc[l] = "top"
    /\ pc' = [pc EXCEPT ![l] = loop_top(stopped[l])]
    /\ out' = << >>
    /\ UNCHANGED << floor, ceiling, max_queue, delay, stopped, inbox, arrivals, bots,
                    error_cooldowns, digest_pc, now, fails, lost, digest_read,
                    digest_report, initial_sent, bad_seen, qualified, alerts_sent,
                    last_alert, in_flight, last_delivered >>

\* mutant of delay_on_connect: the backoff is not reset
delay_kept_on_connect(d) == d

\* the delay after a successful connection (ws_client.py:56)
delay_on_connect(d) == floor

\* websockets.connect succeeds: reset the backoff, call on_connect, wait
\* for the first message
ConnectOk(l) ==
    /\ pc[l] = "connecting"
    /\ delay' = [delay EXCEPT ![l] = delay_on_connect(delay[l])]
    /\ bots' = [bots EXCEPT ![l] = handle_connect(bots[l], now)]
    /\ pc' = [pc EXCEPT ![l] = "receiving"]
    /\ inbox' = [inbox EXCEPT ![l] = << >>]
    /\ arrivals' = [arrivals EXCEPT ![l] = << >>]
    /\ fails' = [fails EXCEPT ![l] = 0]
    /\ lost' = [lost EXCEPT ![l] = FALSE]
    /\ bad_seen' = [bad_seen EXCEPT ![l] = FALSE]
    /\ out' = << <<"on_connect", l>> >>
    /\ UNCHANGED << floor, ceiling, max_queue, stopped, error_cooldowns, digest_pc, now,
                    digest_read, digest_report, initial_sent, qualified, alerts_sent,
                    last_alert, in_flight, last_delivered >>

\* mutant of after_exception: an exception ends the run loop
after_exception_exits(l) ==
    /\ inbox' = [inbox EXCEPT ![l] = << >>]
    /\ arrivals' = [arrivals EXCEPT ![l] = << >>]
    /\ bad_seen' = [bad_seen EXCEPT ![l] = FALSE]
    /\ pc' = [pc EXCEPT ![l] = "done"]
    /\ out' = << >>
    /\ UNCHANGED bots

\* ws_client.py:74-89: an exception was caught; unless stopped, call
\* on_disconnect and sleep for the current delay; when stopped, the loop ends
after_exception(l) ==
    /\ inbox' = [inbox EXCEPT ![l] = << >>]
    /\ arrivals' = [arrivals EXCEPT ![l] = << >>]
    /\ bad_seen' = [bad_seen EXCEPT ![l] = FALSE]
    /\ IF stopped[l]
       THEN /\ pc' = [pc EXCEPT ![l] = "done"]
            /\ out' = << >>
            /\ UNCHANGED bots
       ELSE /\ pc' = [pc EXCEPT ![l] = "backoff"]
            /\ bots' = [bots EXCEPT ![l] = handle_disconnect(bots[l])]
            /\ out' = << <<"on_disconnect", l>> >>

\* websockets.connect raises (refused, timeout, bad handshake)
ConnectFail(l) ==
    /\ pc[l] = "connecting"
    /\ fails[l] < MaxFails
    /\ fails' = [fails EXCEPT ![l] = @ + 1]
    /\ after_exception(l)
    /\ UNCHANGED << floor, ceiling, max_queue, delay, stopped, error_cooldowns,
                    digest_pc, now, lost, digest_read, digest_report, initial_sent,
                    qualified, alerts_sent, last_alert, in_flight, last_delivered >>

\* mutant of next_delay: the doubled delay is not capped
next_delay_uncapped(d) == d * 2

\* the delay after a sleep (ws_client.py:91-94)
next_delay(d) == Min(d * 2, ceiling)

\* mutant of SleepDone: a client whose delay has reached the ceiling gives up
SleepDone_giving_up_at_ceiling(l) ==
    /\ pc[l] = "backoff"
    /\ delay' = [delay EXCEPT ![l] = next_delay(delay[l])]
    /\ pc' = [pc EXCEPT ![l] = IF delay[l] >= ceiling THEN "done"
                                ELSE loop_top(stopped[l])]
    /\ out' = << >>
    /\ UNCHANGED << floor, ceiling, max_queue, stopped, inbox, arrivals, bots,
                    error_cooldowns, digest_pc, now, fails, lost, digest_read,
                    digest_report, initial_sent, bad_seen, qualified, alerts_sent,
                    last_alert, in_flight, last_delivered >>

\* asyncio.sleep(self._delay) returns: double the delay, test the loop
SleepDone(l) ==
    /\ pc[l] = "backoff"
    /\ delay' = [delay EXCEPT ![l] = next_delay(delay[l])]
    /\ pc' = [pc EXCEPT ![l] = loop_top(stopped[l])]
    /\ out' = << >>
    /\ UNCHANGED << floor, ceiling, max_queue, stopped, inbox, arrivals, bots,
                    error_cooldowns, digest_pc, now, fails, lost, digest_read,
                    digest_report, initial_sent, bad_seen, qualified, alerts_sent,
                    last_alert, in_flight, last_delivered >>

\* mutant of Arrive: the newest frame is read first
Arrive_prepending(l, f) ==
    /\ pc[l] \in {"receiving", "sending"}
    /\ Len(inbox[l]) < max_queue
    /\ inbox' = [inbox EXCEPT ![l] = << f >> \o @]
    /\ arrivals' = [arrivals EXCEPT ![l] = Append(@, f)]
    /\ out' = << >>
    /\ UNCHANGED << floor, ceiling, max_queue, pc, delay, stopped, bots,
                    error_cooldowns, digest_pc, now, fails, lost, digest_read,
                    digest_report, initial_sent, bad_seen, qualified, alerts_sent,
                    last_alert, in_flight, last_delivered >>

\* the peer sends a frame on the open connection; the library queues it
Arrive(l, f) ==
    /\ pc[l] \in {"receiving", "sending"}
    /\ Len(inbox[l]) < max_queue
    /\ inbox' = [inbox EXCEPT ![l] = Append(@, f)]
    /\ arrivals' = [arrivals EXCEPT ![l] = Append(@, f)]
    /\ out' = << >>
    /\ UNCHANGED << floor, ceiling, max_queue, pc, delay, stopped, bots,
                    error_cooldowns, digest_pc, now, fails, lost, digest_read,
                    digest_report, initial_sent, bad_seen, qualified, alerts_sent,
                    last_alert, in_flight, last_delivered >>

\* mutant of frame_action: an undecodable frame ends the connection
frame_action_invalid_raises(f) ==
    CASE f.json = "invalid" -> "raise"
      [] f.json = "non_object" -> "raise"
      [] OTHER -> IF f.event_type # "" /\ ~IsNone(f.data) THEN "dispatch" ELSE "drop"

\* what the body of `async for raw_message in ws` does with frame f when
\* the client is not stopped (ws_client.py:63-72)
frame_action(f) ==
    CASE f.json = "invalid" -> "drop"
      [] f.json = "non_object" -> "raise"
      [] OTHER -> IF f.event_type # "" /\ ~IsNone(f.data) THEN "dispatch" ELSE "drop"

\* a summary event whose payload parses, dispatched while info is present
qualifies(b, event_type, data) ==
    /\ ~IsNone(b.info)
    /\ \/ event_type = "spot_grid_summary" /\ parse_spot_grid_summary(data).ok
       \/ event_type = "perp_grid_summary" /\ parse_perp_grid_summary(data).ok

\* the number of notifications `name` among notes
Count(notes, name) == Len(SelectSeq(notes, LAMBDA e : e[1] = name))

\* mutant of dispatch: one cooldown timestamp is kept for all labels
dispatch_shared_cooldown(l, f) ==
    LET r == handle_event(bots[l], error_cooldowns[l], f.event_type,
                          Get(f.data), l, now)
        status_raises == /\ Count(r.notes, "initial_summary") > 0
                         /\ format_bot_status_raises(r.state)
        sends == r.notes # << >> /\ ~status_raises
    IN /\ bots' = [bots EXCEPT ![l] = r.state]
       /\ error_cooldowns' = [k \in DOMAIN error_cooldowns |-> r.cooldown]
       /\ out' = << <<"on_event", l>>, <<"dispatched", l, f>> >> \o r.notes \o
                 (IF handler_exception(f.event_type, Get(f.data)) # "" \/ status_raises
                  THEN << <<"logged_error", l>> >> ELSE << >>)
       /\ pc' = [pc EXCEPT ![l] = IF sends THEN "sending" ELSE "receiving"]
       /\ initial_sent' = [initial_sent EXCEPT
              ![l] = Min(@ + Count(r.notes, "initial_summary"), MaxCount)]
       /\ alerts_sent' = [alerts_sent EXCEPT
              ![l] = Min(@ + Count(r.notes, "error_alert"), MaxCount)]
       /\ last_alert' = [last_alert EXCEPT
              ![l] = IF Count(r.notes, "error_alert") > 0 THEN Some(now) ELSE @]
       /\ qualified' = [qualified EXCEPT
              ![l] = @ \/ qualifies(bots[l], f.event_type, Get(f.data))]
       /\ in_flight' = [in_flight EXCEPT
              ![l] = IF sends THEN r.notes[1][1] ELSE ""]
       /\ UNCHANGED last_delivered

\* `await self._on_event(label, event_type, data)`: _handle_event runs up to
\* its first suspension, which is the Telegram send of a notification.
\* send_initial_summary formats before it sends: when format_bot_status
\* raises, _handle_event logs the exception and nothing is sent.  The entry
\* "dispatched" of out records the frame handed to on_event.
dispatch(l, f) ==
    LET r == handle_event(bots[l], error_cooldowns[l], f.event_type,
                          Get(f.data), l, now)
        status_raises == /\ Count(r.notes, "initial_summary") > 0
                         /\ format_bot_status_raises(r.state)
        sends == r.notes # << >> /\ ~status_raises
    IN /\ bots' = [bots EXCEPT ![l] = r.state]
       /\ error_cooldowns' = [error_cooldowns EXCEPT ![l] = r.cooldown]
       /\ out' = << <<"on_event", l>>, <<"dispatched", l, f>> >> \o r.notes \o
                 (IF handler_exception(f.event_type, Get(f.data)) # "" \/ status_raises
                  THEN << <<"logged_error", l>> >> ELSE << >>)
       /\ pc' = [pc EXCEPT ![l] = IF sends THEN "sending" ELSE "receiving"]
       /\ initial_sent' = [initial_sent EXCEPT
              ![l] = Min(@ + Count(r.notes, "initial_summary"), MaxCount)]
       /\ alerts_sent' = [alerts_sent EXCEPT
              ![l] = Min(@ + Count(r.notes, "error_alert"), MaxCount)]
       /\ last_alert' = [last_alert EXCEPT
              ![l] = IF Count(r.notes, "error_alert") > 0 THEN Some(now) ELSE @]
       /\ qualified' = [qualified EXCEPT
              ![l] = @ \/ qualifies(bots[l], f.event_type, Get(f.data))]
       /\ in_flight' = [in_flight EXCEPT
              ![l] = IF sends THEN r.notes[1][1] ELSE ""]
       /\ UNCHANGED last_delivered

\* mutant of Process: the handlers of all clients share one lock, held across
\* the Telegram send, so a frame is handled only while no client is sending
Process_under_global_lock(l) ==
    /\ \A k \in Configured : pc[k] # "sending"
    /\ pc[l] = "receiving"
    /\ inbox[l] # << >>
    /\ LET f == Head(inbox[l])
       IN IF stopped[l]
          THEN \* break: the connection is closed, the loop ends
               /\ pc' = [pc EXCEPT ![l] = "done"]
               /\ inbox' = [inbox EXCEPT ![l] = << >>]
               /\ arrivals' = [arrivals EXCEPT ![l] = << >>]
               /\ out' = << >>
               /\ bad_seen' = [bad_seen EXCEPT ![l] = FALSE]
               /\ UNCHANGED << bots, error_cooldowns, lost, initial_sent, qualified,
                               alerts_sent, last_alert, in_flight, last_delivered >>
          ELSE CASE frame_action(f) = "drop" ->
                      /\ inbox' = [inbox EXCEPT ![l] = Tail(@)]
                      /\ arrivals' = [arrivals EXCEPT ![l] = Tail(@)]
                      /\ out' = << >>
                      /\ bad_seen' = [bad_seen EXCEPT ![l] = @ \/ f.json = "invalid"]
                      /\ UNCHANGED << pc, bots, error_cooldowns, lost, initial_sent,
                                      qualified, alerts_sent, last_alert, in_flight,
                                      last_delivered >>
                 [] frame_action(f) = "raise" ->
                      /\ after_exception(l)
                      /\ lost' = [lost EXCEPT ![l] = TRUE]
                      /\ UNCHANGED << error_cooldowns, initial_sent, qualified,
                                      alerts_sent, last_alert, in_flight, last_delivered >>
                 [] escapes(f.event_type, Get(f.data)) ->
                      \* on_event raised into the loop: the outer handler
                      /\ after_exception(l)
                      /\ lost' = [lost EXCEPT ![l] = TRUE]
                      /\ UNCHANGED << error_cooldowns, initial_sent, qualified,
                                      alerts_sent, last_alert, in_flight, last_delivered >>
                 [] OTHER ->
                      /\ inbox' = [inbox EXCEPT ![l] = Tail(@)]
                      /\ arrivals' = [arrivals EXCEPT ![l] = Tail(@)]
                      /\ dispatch(l, f)
                      /\ UNCHANGED << lost, bad_seen >>
    /\ UNCHANGED << floor, ceiling, max_queue, delay, stopped, digest_pc, now, fails,
                    digest_read, digest_report >>

\* `async for` yields the next queued frame
Process(l) ==
    /\ pc[l] = "receiving"
    /\ inbox[l] # << >>
    /\ LET f == Head(inbox[l])
       IN IF stopped[l]
          THEN \* break: the connection is closed, the loop ends
               /\ pc' = [pc EXCEPT ![l] = "done"]
               /\ inbox' = [inbox EXCEPT ![l] = << >>]
               /\ arrivals' = [arrivals EXCEPT ![l] = << >>]
               /\ out' = << >>
               /\ bad_seen' = [bad_seen EXCEPT ![l] = FALSE]
               /\ UNCHANGED << bots, error_cooldowns, lost, initial_sent, qualified,
                               alerts_sent, last_alert, in_flight, last_delivered >>
          ELSE CASE frame_action(f) = "drop" ->
                      /\ inbox' = [inbox EXCEPT ![l] = Tail(@)]
                      /\ arrivals' = [arrivals EXCEPT ![l] = Tail(@)]
                      /\ out' = << >>
                      /\ bad_seen' = [bad_seen EXCEPT ![l] = @ \/ f.json = "invalid"]
                      /\ UNCHANGED << pc, bots, error_cooldowns, lost, initial_sent,
                                      qualified, alerts_sent, last_alert, in_flight,
                                      last_delivered >>
                 [] frame_action(f) = "raise" ->
                      /\ after_exception(l)
                      /\ lost' = [lost EXCEPT ![l] = TRUE]
                      /\ UNCHANGED << error_cooldowns, initial_sent, qualified,
                                      alerts_sent, last_alert, in_flight, last_delivered >>
                 [] escapes(f.event_type, Get(f.data)) ->
                      \* on_event raised into the loop: the outer handler
                      /\ after_exception(l)
                      /\ lost' = [lost EXCEPT ![l] = TRUE]
                      /\ UNCHANGED << error_cooldowns, initial_sent, qualified,
                                      alerts_sent, last_alert, in_flight, last_delivered >>
                 [] OTHER ->
                      /\ inbox' = [inbox EXCEPT ![l] = Tail(@)]
                      /\ arrivals' = [arrivals EXCEPT ![l] = Tail(@)]
                      /\ dispatch(l, f)
                      /\ UNCHANGED << lost, bad_seen >>
    /\ UNCHANGED << floor, ceiling, max_queue, delay, stopped, digest_pc, now, fails,
                    digest_read, digest_report >>

\* the Telegram send awaited inside on_event returns (sent, or failed and
\* logged by _send_safe): back to `async for`
SendDone(l) ==
    /\ pc[l] = "sending"
    /\ pc' = [pc EXCEPT ![l] = "receiving"]
    /\ out' = << >>
    /\ in_flight' = [in_flight EXCEPT ![l] = ""]
    /\ last_delivered' = [last_delivered EXCEPT
           ![l] = IF in_flight[l] = "error_alert" THEN last_alert[l] ELSE @]
    /\ UNCHANGED << floor, ceiling, max_queue, delay, stopped, inbox, arrivals, bots,
                    error_cooldowns, digest_pc, now, fails, lost, digest_read,
                    digest_report, initial_sent, bad_seen, qualified, alerts_sent,
                    last_alert >>

\* the Telegram send awaited inside on_event raises: _send_safe catches and
\* logs it and on_event returns; were it caught nowhere, it would reach the
\* outer handler of run()
SendFail(l) ==
    /\ pc[l] = "sending"
    /\ in_flight' = [in_flight EXCEPT ![l] = ""]
    /\ IF caught_by_send_safe("TelegramError") \/ caught_by_handle_event("TelegramError")
       THEN /\ pc' = [pc EXCEPT ![l] = "receiving"]
            /\ out' = << <<"send_failed", l>> >>
            /\ UNCHANGED << inbox, arrivals, bots, bad_seen, lost >>
       ELSE /\ after_exception(l)
            /\ lost' = [lost EXCEPT ![l] = TRUE]
    /\ UNCHANGED << floor, ceiling, max_queue, delay, stopped, error_cooldowns,
                    digest_pc, now, fails, digest_read, digest_report, initial_sent,
                    qualified, alerts_sent, last_alert, last_delivered >>

\* the connection ends (closed by the peer, reset, keepalive timeout) after
\* the queued frames were read: `async for` raises
ConnLost(l) ==
    /\ pc[l] = "receiving"
    /\ inbox[l] = << >>
    /\ lost' = [lost EXCEPT ![l] = TRUE]
    /\ after_exception(l)
    /\ UNCHANGED << floor, ceiling, max_queue, delay, stopped, error_cooldowns,
                    digest_pc, now, fails, digest_read, digest_report, initial_sent,
                    qualified, alerts_sent, last_alert, in_flight, last_delivered >>

\* BotWebSocketClient.stop
ClientStop(l) ==
    /\ ~stopped[l]
    /\ stopped' = [stopped EXCEPT ![l] = TRUE]
    /\ out' = << >>
    /\ UNCHANGED << floor, ceiling, max_queue, pc, delay, inbox, arrivals, bots,
                    error_cooldowns, digest_pc, now, fails, lost, digest_read,
                    digest_report, initial_sent, bad_seen, qualified, alerts_sent,
                    last_alert, in_flight, last_delivered >>

\* Monitor.stop: stop() of every client, without a suspension in between
MonitorStop ==
    /\ \E l \in Configured : ~stopped[l]
    /\ stopped' = [l \in Configured |-> TRUE]
    /\ out' = << >>
    /\ UNCHANGED << floor, ceiling, max_queue, pc, delay, inbox, arrivals, bots,
                    error_cooldowns, digest_pc, now, fails, lost, digest_read,
                    digest_report, initial_sent, bad_seen, qualified, alerts_sent,
                    last_alert, in_flight, last_delivered >>

----------------------------------------------------------------------------
(* The callbacks of Monitor invoked with a label that has no BotState, as   *)
(* tests/test_monitor.py does with "UnknownBot"                             *)

\* labels outside the configured set
UnknownLabels == {"Z"}

\* _handle_event(u, event_type, data) for an unconfigured label u
UnknownEvent(u, f) ==
    /\ u \notin Configured
    /\ frame_action(f) = "dispatch"
    /\ LET r == Monitor_handle_event(bots, error_cooldowns, u, f.event_type,
                                     Get(f.data), now)
       IN /\ bots' = r.bots
          /\ error_cooldowns' = r.cooldowns
          /\ out' = << <<"on_event", u>> >> \o r.notes \o
                    (IF r.raised THEN << <<"raised", u>> >> ELSE << >>)
    /\ UNCHANGED << floor, ceiling, max_queue, pc, delay, stopped, inbox, arrivals,
                    digest_pc, now, fails, lost, digest_read, digest_report,
                    initial_sent, bad_seen, qualified, alerts_sent, last_alert,
                    in_flight, last_delivered >>

\* _handle_connect(u) for an unconfigured label u
UnknownConnect(u) ==
    /\ u \notin Configured
    /\ bots' = Monitor_handle_connect(bots, u, now)
    /\ out' = << <<"on_connect", u>> >>
    /\ UNCHANGED << floor, ceiling, max_queue, pc, delay, stopped, inbox, arrivals,
                    error_cooldowns, digest_pc, now, fails, lost, digest_read,
                    digest_report, initial_sent, bad_seen, qualified, alerts_sent,
                    last_alert, in_flight, last_delivered >>

\* _handle_disconnect(u) for an unconfigured label u
UnknownDisconnect(u) ==
    /\ u \notin Configured
    /\ bots' = Monitor_handle_disconnect(bots, u)
    /\ out' = << <<"on_disconnect", u>> >>
    /\ UNCHANGED << floor, ceiling, max_queue, pc, delay, stopped, inbox, arrivals,
                    error_cooldowns, digest_pc, now, fails, lost, digest_read,
                    digest_report, initial_sent, bad_seen, qualified, alerts_sent,
                    last_alert, in_flight, last_delivered >>

----------------------------------------------------------------------------
(* Monitor._periodic_report_loop (monitor.py:168-185) *)

\* the counters of l that the digest line of l is computed from
read_counters(b) ==
    IF b.connected /\ ~IsNone(b.summary)
    THEN Some(<< Get(b.summary).roundtrips, Get(b.summary).matched_profit,
                 Get(b.summary).total_fees >>)
    ELSE None

\* the baseline of a state, as a triple
baseline(b) == << b.prev_roundtrips, b.prev_matched_profit, b.prev_total_fees >>

\* `for state in self.bots.values(): _snapshot_state(state)`
snapshot_all(bs) == [l \in DOMAIN bs |-> snapshot_state(bs[l])]

\* mutant of DigestWake: the baselines are reset before the lines are formatted
DigestWake_reset_first ==
    /\ digest_pc = "sleeping"
    /\ bots' = snapshot_all(bots)
    /\ IF sections(bots) # {}
       THEN /\ digest_pc' = "sending"
            /\ digest_read' = [l \in Configured |-> read_counters(bots[l])]
            /\ digest_report' = [l \in Configured |->
                                    format_periodic_update(snapshot_state(bots[l]))]
            /\ out' = << <<"periodic_update", "*">> >>
       ELSE /\ out' = << >>
            /\ UNCHANGED << digest_pc, digest_read, digest_report >>
    /\ UNCHANGED << floor, ceiling, max_queue, pc, delay, stopped, inbox, arrivals,
                    error_cooldowns, now, fails, lost, initial_sent, bad_seen,
                    qualified, alerts_sent, last_alert, in_flight, last_delivered >>

\* asyncio.sleep(interval) returns: send_periodic_update formats every line;
\* with a line to send the task suspends in the Telegram send, with none
\* (send_periodic_update returns at once) the snapshot follows in the same step
DigestWake ==
    /\ digest_pc = "sleeping"
    /\ IF \E l \in Configured : format_periodic_update_raises(bots[l])
       THEN \* the exception leaves send_periodic_update and the loop: the
            \* task ends (gather keeps it, return_exceptions=True)
            /\ digest_pc' = "failed"
            /\ out' = << <<"digest_raised", "*">> >>
            /\ UNCHANGED << bots, digest_read, digest_report >>
       ELSE IF sections(bots) # {}
       THEN /\ digest_pc' = "sending"
            /\ digest_read' = [l \in Configured |-> read_counters(bots[l])]
            /\ digest_report' = [l \in Configured |-> format_periodic_update(bots[l])]
            /\ out' = << <<"periodic_update", "*">> >>
            /\ UNCHANGED bots
       ELSE /\ bots' = snapshot_all(bots)
            /\ out' = << >>
            /\ UNCHANGED << digest_pc, digest_read, digest_report >>
    /\ UNCHANGED << floor, ceiling, max_queue, pc, delay, stopped, inbox, arrivals,
                    error_cooldowns, now, fails, lost, initial_sent, bad_seen,
                    qualified, alerts_sent, last_alert, in_flight, last_delivered >>

\* the Telegram send of the digest returns: snapshot every state, sleep again
DigestSent ==
    /\ digest_pc = "sending"
    /\ bots' = snapshot_all(bots)
    /\ digest_pc' = "sleeping"
    /\ digest_read' = [l \in Configured |-> None]
    /\ digest_report' = [l \in Configured |-> None]
    /\ out' = << >>
    /\ UNCHANGED << floor, ceiling, max_queue, pc, delay, stopped, inbox, arrivals,
                    error_cooldowns, now, fails, lost, initial_sent, bad_seen,
                    qualified, alerts_sent, last_alert, in_flight, last_delivered >>

----------------------------------------------------------------------------
(* Environment *)

\* the wall clock advances
Tick ==
    /\ now < MaxTime
    /\ now' = now + 1
    /\ out' = << >>
    /\ UNCHANGED << floor, ceiling, max_queue, pc, delay, stopped, inbox, arrivals,
                    bots, error_cooldowns, digest_pc, fails, lost, digest_read,
                    digest_report, initial_sent, bad_seen, qualified, alerts_sent,
                    last_alert, in_flight, last_delivered >>

\* main.py:70-77: after `await monitor.stop()`, monitor_task.cancel() ends
\* every task at its suspension point (CancelledError is not an Exception,
\* so no handler of run() or _handle_event catches it)
Cancel ==
    /\ \A l \in Configured : stopped[l]
    /\ \/ digest_pc \notin {"cancelled", "failed"}
       \/ \E l \in Configured : pc[l] \notin {"done", "cancelled"}
    /\ pc' = [l \in Configured |-> IF pc[l] = "done" THEN "done" ELSE "cancelled"]
    /\ inbox' = [l \in Configured |-> << >>]
    /\ arrivals' = [l \in Configured |-> << >>]
    /\ in_flight' = [l \in Configured |-> ""]
    /\ digest_pc' = IF digest_pc = "failed" THEN "failed" ELSE "cancelled"
    /\ bad_seen' = [l \in Configured |-> FALSE]
    /\ out' = << >>
    /\ UNCHANGED << floor, ceiling, max_queue, delay, stopped, bots, error_cooldowns,
                    now, fails, lost, digest_read, digest_report, initial_sent,
                    qualified, alerts_sent, last_alert, last_delivered >>

----------------------------------------------------------------------------
(* Specifications *)

\* the configured floors and ceilings explored (the defaults are 5 and 60;
\* nothing validates floor <= ceiling)
Floors == {1, 2}

Ceilings == {1, 4}

\* Monitor.run has created the states, the clients and the tasks
InitWith(E, f, c, q) ==
    /\ floor = f
    /\ ceiling = c
    /\ max_queue = q
    /\ pc = [l \in E |-> "top"]
    /\ delay = [l \in E |-> f]
    /\ stopped = [l \in E |-> FALSE]
    /\ inbox = [l \in E |-> << >>]
    /\ bots = [l \in E |-> BotState]
    /\ error_cooldowns = [l \in E |-> None]
    /\ digest_pc = "sleeping"
    /\ now = 0
    /\ fails = [l \in E |-> 0]
    /\ lost = [l \in E |-> FALSE]
    /\ digest_read = [l \in E |-> None]
    /\ initial_sent = [l \in E |-> 0]
    /\ bad_seen = [l \in E |-> FALSE]
    /\ qualified = [l \in E |-> FALSE]
    /\ alerts_sent = [l \in E |-> 0]
    /\ last_alert = [l \in E |-> None]
    /\ digest_report = [l \in E |-> None]
    /\ in_flight = [l \in E |-> ""]
    /\ last_delivered = [l \in E |-> None]
    /\ arrivals = [l \in E |-> << >>]
    /\ out = << >>

Init == \E f \in Floors, c \in Ceilings : InitWith(Labels, f, c, MaxQueue)

\* the whole program
Next ==
    \/ \E l \in Configured : Start(l)
    \/ \E l \in Configured : ConnectOk(l)
    \/ \E l \in Configured : ConnectFail(l)
    \/ \E l \in Configured : SleepDone(l)
    \/ \E l \in Configured, f \in AllFrames : Arrive(l, f)
    \/ \E l \in Configured : Process(l)
    \/ \E l \in Configured : SendDone(l)
    \/ \E l \in Configured : SendFail(l)
    \/ \E l \in Configured : ConnLost(l)
    \/ \E l \in Configured : ClientStop(l)
    \/ MonitorStop
    \/ Cancel
    \/ DigestWake
    \/ DigestSent
    \/ Tick

Spec == Init /\ [][Next]_vars

\* the connection lifecycle of the clients: every configuration, every
\* connect outcome, stop and cancellation; the frames are those the client
\* itself tells apart
NextClient ==
    \/ \E l \in Configured : Start(l)
    \/ \E l \in Configured : ConnectOk(l)
    \/ \E l \in Configured : ConnectFail(l)
    \/ \E l \in Configured : SleepDone(l)
    \/ \E l \in Configured, f \in ClientFrames : Arrive(l, f)
    \/ \E l \in Configured : Process(l)
    \/ \E l \in Configured : ConnLost(l)
    \/ \E l \in Configured : ClientStop(l)
    \/ MonitorStop
    \/ Cancel

SpecClient == Init /\ [][NextClient]_vars

\* summaries and the digest: info and summary events (parsed or not) of
\* both endpoints, reconnections, and the digest loop, with the backoff
\* delay held constant (floor = ceiling)
NextSummary ==
    \/ \E l \in Configured : Start(l)
    \/ \E l \in Configured : ConnectOk(l)
    \/ \E l \in Configured : SleepDone(l)
    \/ \E l \in Configured, f \in SummaryFrames : Arrive(l, f)
    \/ \E l \in Configured : Process(l)
    \/ \E l \in Configured : SendDone(l)
    \/ \E l \in Configured : ConnLost(l)
    \/ DigestWake
    \/ DigestSent

SpecSummary == InitWith(Labels, 1, 1, 1) /\ [][NextSummary]_vars

\* error alerts: error events of both endpoints against the clock
NextError ==
    \/ \E l \in Configured : Start(l)
    \/ \E l \in Configured : ConnectOk(l)
    \/ \E l \in Configured, f \in ErrorFrames : Arrive(l, f)
    \/ \E l \in Configured : Process(l)
    \/ \E l \in Configured : SendDone(l)
    \/ \E l \in Configured : SendFail(l)
    \/ Tick

SpecError == InitWith(Labels, 1, 1, 1) /\ [][NextError]_vars

\* one endpoint alone, with every kind of frame, reconnections and the
\* digest loop
NextOne ==
    \/ \E l \in Configured : Start(l)
    \/ \E l \in Configured : ConnectOk(l)
    \/ \E l \in Configured : SleepDone(l)
    \/ \E l \in Configured, f \in AllFrames : Arrive(l, f)
    \/ \E l \in Configured : Process(l)
    \/ \E l \in Configured : SendDone(l)
    \/ \E l \in Configured : ConnLost(l)
    \/ DigestWake
    \/ DigestSent

SpecOne == InitWith({"A"}, 1, 1, 1) /\ [][NextOne]_vars

\* one configured endpoint receiving info, summary and error events, while
\* the callbacks are also invoked with an unconfigured label
NextUnknown ==
    \/ \E l \in Configured : Start(l)
    \/ \E l \in Configured : ConnectOk(l)
    \/ \E l \in Configured : SleepDone(l)
    \/ \E l \in Configured, f \in SummaryFrames \cup ErrorFrames : Arrive(l, f)
    \/ \E l \in Configured : Process(l)
    \/ \E l \in Configured : SendDone(l)
    \/ \E l \in Configured : ConnLost(l)
    \/ \E u \in UnknownLabels, f \in AllFrames : UnknownEvent(u, f)
    \/ \E u \in UnknownLabels : UnknownConnect(u)
    \/ \E u \in UnknownLabels : UnknownDisconnect(u)
    \/ Tick

SpecUnknown == InitWith({"A"}, 1, 1, 1) /\ [][NextUnknown]_vars

\* dispatch: both endpoints with frames queueing behind the one being
\* handled, payloads that fail to parse and Telegram sends that fail
NextDispatch ==
    \/ \E l \in Configured : Start(l)
    \/ \E l \in Configured : ConnectOk(l)
    \/ \E l \in Configured : SleepDone(l)
    \/ \E l \in Configured, f \in DispatchFrames : Arrive(l, f)
    \/ \E l \in Configured : Process(l)
    \/ \E l \in Configured : SendDone(l)
    \/ \E l \in Configured : SendFail(l)
    \/ \E l \in Configured : ConnLost(l)

SpecDispatch == InitWith(Labels, 1, 1, MaxQueue) /\ [][NextDispatch]_vars

\* event routing: one endpoint receiving every kind of frame
NextEvents ==
    \/ \E l \in Configured : Start(l)
    \/ \E l \in Configured : ConnectOk(l)
    \/ \E l \in Configured : SleepDone(l)
    \/ \E l \in Configured, f \in EventFrames : Arrive(l, f)
    \/ \E l \in Configured : Process(l)
    \/ \E l \in Configured : SendDone(l)
    \/ \E l \in Configured : ConnLost(l)

SpecEvents == InitWith({"A"}, 1, 1, 1) /\ [][NextEvents]_vars

\* error events of one endpoint, text and object payloads, against the clock
NextErrorStamp ==
    \/ \E l \in Configured : Start(l)
    \/ \E l \in Configured : ConnectOk(l)
    \/ \E l \in Configured, f \in ErrorStampFrames : Arrive(l, f)
    \/ \E l \in Configured : Process(l)
    \/ \E l \in Configured : SendDone(l)
    \/ \E l \in Configured : SendFail(l)
    \/ Tick

SpecErrorStamp == InitWith({"A"}, 1, 1, 1) /\ [][NextErrorStamp]_vars

\* the digest loop of one endpoint whose summaries may hold counters that
\* are no numbers, with failing Telegram sends, Monitor.stop and the
\* cancellation by main.py
NextDigestFail ==
    \/ \E l \in Configured : Start(l)
    \/ \E l \in Configured : ConnectOk(l)
    \/ \E l \in Configured, f \in DigestFailFrames : Arrive(l, f)
    \/ \E l \in Configured : Process(l)
    \/ \E l \in Configured : SendDone(l)
    \/ \E l \in Configured : SendFail(l)
    \/ DigestWake
    \/ DigestSent
    \/ MonitorStop
    \/ Cancel

SpecDigestFail == InitWith({"A"}, 1, 1, 1) /\ [][NextDigestFail]_vars

\* reconnection: both clients with failing attempts, lost connections and
\* stop, floor 1 and ceiling 4
NextReconnect ==
    \/ \E l \in Configured : Start(l)
    \/ \E l \in Configured : ConnectOk(l)
    \/ \E l \in Configured : ConnectFail(l)
    \/ \E l \in Configured : SleepDone(l)
    \/ \E l \in Configured, f \in ClientFrames : Arrive(l, f)
    \/ \E l \in Configured : Process(l)
    \/ \E l \in Configured : ConnLost(l)
    \/ \E l \in Configured : ClientStop(l)

\* asyncio.sleep(self._delay) of a finite delay returns and the task is
\* resumed by the event loop: the end of a backoff sleep is weakly fair.
\* Nothing is assumed of the network: an attempt may stay pending and a
\* connection may stay open for ever.
SpecReconnect ==
    /\ InitWith(Labels, 1, 4, 1)
    /\ [][NextReconnect]_vars
    /\ \A l \in Labels : WF_vars(SleepDone(l))

\* shutdown: one endpoint with summaries and the digest loop, Monitor.stop
\* and the cancellation by main.py
NextShutdown ==
    \/ \E l \in Configured : Start(l)
    \/ \E l \in Configured : ConnectOk(l)
    \/ \E l \in Configured : SleepDone(l)
    \/ \E l \in Configured, f \in SummaryFrames : Arrive(l, f)
    \/ \E l \in Configured : Process(l)
    \/ \E l \in Configured : SendDone(l)
    \/ \E l \in Configured : ConnLost(l)
    \/ MonitorStop
    \/ Cancel
    \/ DigestWake
    \/ DigestSent

SpecShutdown == InitWith({"A"}, 1, 1, 1) /\ [][NextShutdown]_vars

\* deltas: one endpoint whose counters move between digests
NextDelta ==
    \/ \E l \in Configured : Start(l)
    \/ \E l \in Configured : ConnectOk(l)
    \/ \E l \in Configured : SleepDone(l)
    \/ \E l \in Configured, f \in DeltaFrames : Arrive(l, f)
    \/ \E l \in Configured : Process(l)
    \/ \E l \in Configured : SendDone(l)
    \/ \E l \in Configured : ConnLost(l)
    \/ DigestWake
    \/ DigestSent

SpecDelta == InitWith({"A"}, 1, 1, 1) /\ [][NextDelta]_vars

----------------------------------------------------------------------------
(* Properties of the client (checked under SpecClient) *)

\* the latest step invoked callback or notification `name` for label l
Emitted(o, name, l) == \E i \in 1..Len(o) : o[i] = << name, l >>

Callbacks == {"on_connect", "on_event", "on_disconnect"}

\* the latest step invoked a callback of client l
CallbackFor(o, l) == \E name \in Callbacks : Emitted(o, name, l)

\* the k-th consecutive wait since the start or the last successful connection
ExpectedWait(k) == IF k = 1 THEN floor ELSE Min(floor * Pow2(k - 1), ceiling)

\* C2 as stated: after n >= 1 consecutive failed connection attempts the
\* wait before attempt n+1 is min(floor * 2^n, ceiling)
C2_BackoffAsStated ==
    \A l \in Configured :
        (pc[l] = "backoff" /\ fails[l] >= 1)
            => delay[l] = Min(floor * Pow2(fails[l]), ceiling)

\* C2 amended: after n >= 1 consecutive failed connection attempts the wait
\* before attempt n+1 is floor for n = 1 and min(floor * 2^(n-1), ceiling)
\* for n > 1 when no connection was established since the client started,
\* and min(floor * 2^n, ceiling) when the failed attempts follow the loss of
\* an established connection
C2_Backoff ==
    \A l \in Configured :
        (pc[l] = "backoff" /\ fails[l] >= 1)
            => delay[l] = ExpectedWait(fails[l] + (IF lost[l] THEN 1 ELSE 0))

\* C2 witness: a client waits after its third failed attempt since start,
\* with the doubled delay cut by the ceiling
C2_Witness ==
    \E l \in Configured :
        /\ pc[l] = "backoff" /\ fails[l] = 3 /\ ~lost[l]
        /\ floor = 2 /\ ceiling = 4 /\ delay[l] = 4

\* C3: the wait that follows the loss of an established connection is the
\* floor, whatever the delay had grown to before that connection
C3_ResetOnConnect ==
    \A l \in Configured :
        (pc[l] = "backoff" /\ lost[l] /\ fails[l] = 0) => delay[l] = floor

\* C3 witness: a client waits after losing a connection, the floor being
\* below the ceiling
C3_Witness ==
    \E l \in Configured :
        pc[l] = "backoff" /\ lost[l] /\ fails[l] = 0 /\ floor < ceiling

\* C6 as stated: once stop() was called on client l, no step invokes
\* on_connect, on_event or on_disconnect for l (stop clears `out`, so a
\* callback in `out` of a stopped client was invoked after the stop)
C6_NoCallbackAfterStop ==
    \A l \in Configured : stopped[l] => ~CallbackFor(out, l)

\* C7 as stated: on_connect and on_disconnect of one client alternate,
\* starting with on_connect (BotState.connected records which came last)
C7_CallbacksAlternate ==
    [][\A l \in Configured :
          /\ Emitted(out', "on_disconnect", l) => bots[l].connected
          /\ Emitted(out', "on_connect", l) => ~bots[l].connected]_vars

\* the steps client l takes without the peer: its own code, and the awaited
\* connect, sleep or send completing
ClientStep(l) ==
    Start(l) \/ ConnectOk(l) \/ ConnectFail(l) \/ SleepDone(l) \/ Process(l) \/ SendDone(l)

----------------------------------------------------------------------------
(* Properties of the monitor *)

\* the step is client l reading the frame at the head of its queue
Reads(l) ==
    /\ pc[l] = "receiving" /\ ~stopped[l] /\ inbox[l] # << >>
    /\ Len(inbox'[l]) < Len(inbox[l])

\* the step is client l dispatching the frame at the head of its queue
Dispatches(l) == Reads(l) /\ frame_action(Head(inbox[l])) = "dispatch"

\* the summary a frame carries, when it is a summary event that parses
SummaryOf(f) ==
    CASE f.event_type = "spot_grid_summary" -> parse_spot_grid_summary(Get(f.data))
      [] f.event_type = "perp_grid_summary" -> parse_perp_grid_summary(Get(f.data))
      [] OTHER -> Raised

\* C1 as stated: the baseline the digest's reset writes for a bot equals the
\* counters that digest read for its report (no summary event of that bot
\* is applied between the read and the reset)
C1_DigestAtomic ==
    [][(digest_pc = "sending" /\ digest_pc' = "sleeping")
          => \A l \in Configured :
                ~IsNone(digest_read[l]) => baseline(bots'[l]) = Get(digest_read[l])]_vars

\* C4: in every state the number of initial-summary notifications of an
\* endpoint is 1 if a parsed summary event has been dispatched for it while
\* info was present, and 0 otherwise: the first such event triggers the
\* notification in its own step and no later event triggers another
C4_InitialSummaryOnce ==
    \A l \in Configured : initial_sent[l] = (IF qualified[l] THEN 1 ELSE 0)

\* C4 witness: the notification of an endpoint was sent once, on a summary
\* with 1 roundtrip; a later summary event (2 roundtrips) was dispatched
\* without another one, config and error events having been seen as well
C4_Witness ==
    \E l \in Configured :
        /\ initial_sent[l] = 1
        /\ ~IsNone(bots[l].summary) /\ Get(bots[l].summary).roundtrips = 2
        /\ bots[l].prev_roundtrips = 1
        /\ ~IsNone(bots[l].last_error) /\ ~IsNone(bots[l].config)

\* the number of error alerts for label l among the notifications o
AlertsFor(o, l) ==
    Len(SelectSeq(o, LAMBDA e : e[1] = "error_alert" /\ e[2] = l))

\* C5: an error event dispatched for a label sends exactly one alert when
\* no alert was sent for the label yet or the last one was sent at least
\* error_cooldown_seconds ago, and none when the last one was sent less than
\* that ago; no other step sends an alert for the label
C5_ErrorCooldown ==
    [][\A l \in Configured :
          LET is_error == Dispatches(l) /\ Head(inbox[l]).event_type = "error"
              due == \/ IsNone(last_alert[l])
                     \/ now - Get(last_alert[l]) >= error_cooldown_seconds
          IN AlertsFor(out', l) = (IF is_error /\ due THEN 1 ELSE 0)]_vars

\* C5 witness: a second alert is sent for a label, the window after the
\* first having elapsed
C5_Witness ==
    \E l \in Configured :
        alerts_sent[l] = 2 /\ Emitted(out, "error_alert", l)
           /\ ~IsNone(bots[l].last_error_at)

\* C10: dispatching a summary event that parses leaves exactly that summary
\* in BotState.summary of its endpoint, and no other step (an event of
\* another endpoint, a digest, a connection change) changes it
C10_LastWriteWins ==
    [][\A l \in Configured :
          LET f == Head(inbox[l])
          IN /\ (Dispatches(l) /\ SummaryOf(f).ok)
                    => bots'[l].summary = SummaryOf(f).value
             /\ bots'[l].summary # bots[l].summary
                    => (Dispatches(l) /\ SummaryOf(f).ok)]_vars

\* C10 witness: an endpoint holds its second summary while the other
\* endpoint holds one too and a digest is being sent
C10_Witness ==
    \E l, m \in Configured :
        /\ l # m
        /\ bots[l].summary = Some(parse_spot_grid_summary(Spot(2, 25, 3)).value[1])
        /\ bots[l].prev_roundtrips = 1
        /\ ~IsNone(bots[m].summary)
        /\ digest_pc = "sending"

----------------------------------------------------------------------------
(* Properties of the digest cycle *)

\* the step in which the digest formats its lines and starts sending them
DigestComputes == digest_pc = "sleeping" /\ digest_pc' = "sending"

\* the step in which the digest's send has returned and the baselines are reset
DigestResets == digest_pc = "sending" /\ digest_pc' = "sleeping"

\* the line a digest reports for state b is the difference between the
\* counters of b and the baseline of b
ReportsDeltaOf(line, b) ==
    /\ line.new_trades = Get(b.summary).roundtrips - b.prev_roundtrips
    /\ line.matched_delta = Get(b.summary).matched_profit - b.prev_matched_profit
    /\ line.fees_delta = Get(b.summary).total_fees - b.prev_total_fees

\* C11: the step that computes and starts sending a digest resets no
\* baseline and reports each delta against the baseline of that moment; a
\* baseline changes only in the reset step that follows the send of a digest
\* (or in the dispatch of a summary event, which takes the initial snapshot)
C11_ResetAfterSend ==
    [][\A l \in Configured :
          /\ DigestComputes
                => /\ baseline(bots'[l]) = baseline(bots[l])
                   /\ (~IsNone(digest_report'[l])
                         /\ Get(digest_report'[l]).kind = "delta")
                        => ReportsDeltaOf(Get(digest_report'[l]), bots[l])
          /\ baseline(bots'[l]) # baseline(bots[l])
                => (DigestResets \/ Dispatches(l))]_vars

\* C11 witness: a digest reporting one new roundtrip is being sent while the
\* baseline still holds the old count
C11_Witness ==
    \E l \in Configured :
        /\ digest_pc = "sending"
        /\ ~IsNone(digest_report[l])
        /\ Get(digest_report[l]).kind = "delta"
        /\ Get(digest_report[l]).new_trades = 1
        /\ bots[l].prev_roundtrips = 1
        /\ Get(bots[l].summary).roundtrips = 2

\* the counters of a summary, as a triple
counters(summary) ==
    << summary.roundtrips, summary.matched_profit, summary.total_fees >>

\* C12: the step in which initial_summary_sent becomes true is the dispatch
\* of a summary event that parses, and it leaves the counters of that very
\* summary in prev_roundtrips, prev_matched_profit and prev_total_fees
C12_LatchSnapshotsBaseline ==
    [][\A l \in Configured :
          (~bots[l].initial_summary_sent /\ bots'[l].initial_summary_sent)
            => /\ Dispatches(l)
               /\ SummaryOf(Head(inbox[l])).ok
               /\ baseline(bots'[l]) = counters(Get(SummaryOf(Head(inbox[l])).value))]_vars

\* C12 witness: the latch was set by a summary with 2 roundtrips, its
\* notification is still being sent and the baseline holds the counters of
\* that summary
C12_Witness ==
    \E l \in Configured :
        /\ bots[l].initial_summary_sent
        /\ in_flight[l] = "initial_summary"
        /\ baseline(bots[l]) = << 2, 25, 3 >>

----------------------------------------------------------------------------
(* Properties of the callbacks *)

\* C13: a callback invoked with an unconfigured label changes no BotState,
\* creates none, changes no cooldown timestamp, sends no notification and
\* raises nothing: the invocation itself is all the step shows
C13_UnknownLabelNoOp ==
    [][\A u \in UnknownLabels :
          CallbackFor(out', u)
            => /\ bots' = bots
               /\ DOMAIN bots' = DOMAIN bots
               /\ error_cooldowns' = error_cooldowns
               /\ Len(out') = 1]_vars

\* C13 witness: an event was just dispatched for the unconfigured label
\* while the configured endpoint is connected, has info and no alert yet
C13_Witness ==
    /\ Emitted(out, "on_event", "Z")
    /\ bots["A"].connected
    /\ ~IsNone(bots["A"].info)
    /\ IsNone(error_cooldowns["A"])

\* C14: a dispatched event whose handling raises (its payload does not
\* parse) is consumed with the connection left open and no on_disconnect,
\* and a Telegram send that ends, failed or not, returns the client to its
\* receive loop with the queued frames kept; neither touches the connection
\* or the queue of another endpoint
C14_DispatchContainsExceptions ==
    [][\A l \in Configured :
          /\ (Dispatches(l) /\ handler_exception(Head(inbox[l]).event_type,
                                                 Get(Head(inbox[l]).data)) # "")
                => /\ pc'[l] = "receiving"
                   /\ inbox'[l] = Tail(inbox[l])
                   /\ bots'[l].connected = bots[l].connected
                   /\ ~Emitted(out', "on_disconnect", l)
                   /\ \A m \in Configured \ {l} :
                         pc'[m] = pc[m] /\ inbox'[m] = inbox[m]
          /\ (pc[l] = "sending" /\ pc'[l] # "sending")
                => /\ pc'[l] = "receiving"
                   /\ inbox'[l] = inbox[l]
                   /\ bots'[l].connected = bots[l].connected
                   /\ ~Emitted(out', "on_disconnect", l)
                   /\ \A m \in Configured \ {l} :
                         pc'[m] = pc[m] /\ inbox'[m] = inbox[m]]_vars

\* C14 witness: the send of an alert has just failed for an endpoint whose
\* connection stays open with a later frame queued, while the other
\* endpoint, still without info, is connected with an info event queued
C14_Witness ==
    \E l, m \in Configured :
        /\ l # m
        /\ Emitted(out, "send_failed", l)
        /\ pc[l] = "receiving" /\ inbox[l] # << >> /\ bots[l].connected
        /\ pc[m] = "receiving" /\ bots[m].connected /\ IsNone(bots[m].info)
        /\ inbox[m] = << Frame("info", InfoOk) >>

\* C18: every invocation of on_event for an endpoint happens while no
\* earlier dispatch of that endpoint is still sending a notification, and it
\* handles the frame that the connection received first among those not yet
\* read: the state and the cooldown entry become what _handle_event makes of
\* that frame
C18_DispatchInReceiptOrder ==
    [][\A l \in Configured :
          Emitted(out', "on_event", l)
            => /\ pc[l] = "receiving"
               /\ in_flight[l] = ""
               /\ arrivals[l] # << >>
               /\ arrivals'[l] = Tail(arrivals[l])
               /\ LET f == Head(arrivals[l])
                      r == handle_event(bots[l], error_cooldowns[l], f.event_type,
                                        Get(f.data), l, now)
                  IN /\ bots'[l] = r.state
                     /\ error_cooldowns'[l] = r.cooldown]_vars

\* C18 witness: an alert is being sent for an endpoint while two different
\* frames received after the error wait in receipt order
C18_Witness ==
    \E l \in Configured :
        /\ pc[l] = "sending"
        /\ in_flight[l] = "error_alert"
        /\ arrivals[l] = << Frame("info", InfoOk), Frame("error", ErrorText) >>
        /\ inbox[l] = arrivals[l]

----------------------------------------------------------------------------
(* Further properties of the client *)

\* C15: the run loop of a client ends only when the client is stopped, and
\* while it is not stopped every end of a connection attempt or of an open
\* connection (refused, closed, reset, a frame that makes the loop raise)
\* takes it to the backoff sleep
C15_ExitOnlyAfterStop ==
    [][\A l \in Configured :
          /\ (pc[l] # "done" /\ pc'[l] = "done") => stopped[l]
          /\ (~stopped[l] /\ pc[l] \in {"connecting", "receiving"}
                /\ pc'[l] \notin {"connecting", "receiving", "sending"})
                => pc'[l] = "backoff"]_vars

\* C15 witness: a client that is not stopped sleeps before its next attempt
\* after a lost connection followed by MaxFails failed attempts
C15_Witness ==
    \E l \in Configured :
        pc[l] = "backoff" /\ ~stopped[l] /\ lost[l] /\ fails[l] = MaxFails

----------------------------------------------------------------------------
(* Further properties of the monitor *)

\* C16 as stated: once BotState.summary of an endpoint holds a variant
\* (spot or perp), every later value of it has the same variant
C16_VariantStable ==
    [][\A l \in Configured :
          ~IsNone(bots[l].summary)
            => /\ ~IsNone(bots'[l].summary)
               /\ Get(bots'[l].summary).tag = Get(bots[l].summary).tag]_vars

C20_CooldownIsLastSent ==
    \A l \in Configured :
        in_flight[l] # "error_alert" => error_cooldowns[l] = last_delivered[l]

----------------------------------------------------------------------------
(* Event routing (SpecEvents) *)

\* the latest step handed frame f of client l to on_event
Dispatched(o, l, f) == \E i \in 1..Len(o) : o[i] = << "dispatched", l, f >>

\* the notifications among the entries of o
Notifications(o) ==
    Count(o, "initial_summary") + Count(o, "error_alert") + Count(o, "periodic_update")

\* C21 as stated: the dispatch of a config event whose payload lacks type or
\* symbol fails in the parser (the failure is logged) and leaves
\* BotState.config unchanged
C21_ConfigNeedsTypeAndSymbol ==
    [][\A l \in Configured :
          (/\ Dispatches(l)
           /\ Head(inbox[l]).event_type = "config"
           /\ Get(Head(inbox[l]).data).py = "dict"
           /\ ~({"type", "symbol"} \subseteq DOMAIN Get(Head(inbox[l]).data)))
              => /\ bots'[l].config = bots[l].config
                 /\ Emitted(out', "logged_error", l)]_vars

\* a payload that is present but empty: {} or ""
IsEmptyPayload(data) ==
    \/ data.py = "dict" /\ DOMAIN data = {"py"}
    \/ data.py = "str" /\ data.value = ""

\* C22 as stated: a decoded frame that is read is dispatched to on_event
\* exactly when its kind is non-empty and its payload is present and
\* non-empty; otherwise it is dropped and the connection stays open
C22_EmptyPayloadDropped ==
    [][\A l \in Configured :
          (Reads(l) /\ Head(inbox[l]).json = "object")
              => LET f == Head(inbox[l])
                     complete == /\ f.event_type # ""
                                 /\ ~IsNone(f.data)
                                 /\ ~IsEmptyPayload(Get(f.data))
                 IN IF complete THEN Emitted(out', "on_event", l)
                    ELSE /\ ~Emitted(out', "on_event", l)
                         /\ bots' = bots
                         /\ pc'[l] = "receiving"
                         /\ inbox'[l] = Tail(inbox[l])]_vars

\* C23: the dispatch of an event whose kind has no branch in _handle_event
\* leaves the BotState and the cooldown of its label unchanged, sends no
\* notification, logs no error and raises nothing: the client reads on
C23_IgnoredKindsNoOp ==
    [][\A l \in Configured :
          (Dispatches(l) /\ Head(inbox[l]).event_type \notin HandledKinds)
              => /\ bots' = bots
                 /\ error_cooldowns' = error_cooldowns
                 /\ out' = << <<"on_event", l>>, <<"dispatched", l, Head(inbox[l])>> >>
                 /\ pc'[l] = "receiving"
                 /\ inbox'[l] = Tail(inbox[l])]_vars

\* an ignored kind was dispatched for a bot that holds info and a summary,
\* and the client is back at the read
C23_Witness ==
    \E l \in Configured, f \in IgnoredFrames :
        /\ Dispatched(out, l, f)
        /\ f.event_type = "grid_state"
        /\ ~IsNone(bots[l].info) /\ ~IsNone(bots[l].summary)
        /\ pc[l] = "receiving"

\* the parser result of a frame of a parsed kind
ParseOf(f) ==
    CASE f.event_type = "info" -> parse_system_info(Get(f.data))
      [] f.event_type = "config" -> parse_strategy_config(Get(f.data))
      [] f.event_type = "spot_grid_summary" -> parse_spot_grid_summary(Get(f.data))
      [] f.event_type = "perp_grid_summary" -> parse_perp_grid_summary(Get(f.data))
      [] OTHER -> Parsed(Get(f.data))

\* C29: the dispatch of an info, config or summary event whose payload
\* fails to parse leaves every BotState (info, config, summary,
\* last_summary_at, prev_* baseline, initial_summary_sent) and every
\* cooldown entry unchanged and sends no notification
C29_ParseFailureKeepsState ==
    [][\A l \in Configured :
          (Dispatches(l) /\ ~ParseOf(Head(inbox[l])).ok)
              => /\ bots' = bots
                 /\ error_cooldowns' = error_cooldowns
                 /\ Notifications(out') = 0
                 /\ pc'[l] = "receiving"]_vars

\* a summary event that fails to parse was dispatched for a bot that holds
\* info, config and a summary and has sent its initial summary
C29_Witness ==
    \E l \in Configured :
        /\ Dispatched(out, l, Frame("spot_grid_summary", SpotNoRoundtrips))
        /\ Emitted(out, "logged_error", l)
        /\ ~IsNone(bots[l].info) /\ ~IsNone(bots[l].config)
        /\ ~IsNone(bots[l].summary) /\ bots[l].initial_summary_sent

----------------------------------------------------------------------------
(* Backoff bounds (SpecClient) *)

\* C24 as stated: for every configured floor and ceiling, the delay a client
\* waits before its next connection attempt is never above the ceiling and
\* never below the floor
C24_DelayWithinBounds ==
    \A l \in Configured :
        pc[l] = "backoff" => (floor <= delay[l] /\ delay[l] <= ceiling)

----------------------------------------------------------------------------
(* Independence of the endpoints (SpecDispatch) *)

\* client l is suspended in a notification send, in connect or in backoff
Blocked(l) == pc[l] \in {"sending", "connecting", "backoff"}

\* C25: while a client is suspended in the send of a notification, in
\* connect or in backoff, every other client that is connected can receive
\* the next frame of its endpoint and can handle the frame at the head of
\* its queue: no client waits on another
C25_NoCrossEndpointStalling ==
    \A l, m \in Configured :
        (l # m /\ Blocked(l)) =>
            /\ (pc[m] = "receiving" /\ inbox[m] # << >>) => ENABLED Process(m)
            /\ (pc[m] \in {"receiving", "sending"} /\ Len(inbox[m]) < max_queue)
                   => \A f \in DispatchFrames : ENABLED Arrive(m, f)

\* an event of one endpoint was dispatched in the latest step while the
\* other client is suspended in the send of a notification and has a frame
\* waiting behind it
C25_Witness ==
    \E l, m \in Configured :
        /\ l # m
        /\ pc[l] = "sending" /\ inbox[l] # << >>
        /\ Emitted(out, "on_event", m)

----------------------------------------------------------------------------
(* Connection flag (SpecClient) *)

\* C26: a step that invokes on_connect for a label leaves its BotState
\* connected with last_connected_at set to the time of the call, a step that
\* invokes on_disconnect leaves it not connected, and a connected BotState
\* always has last_connected_at present
C26_ConnectionFlag ==
    [][\A l \in Configured :
          /\ Emitted(out', "on_connect", l)
                => /\ bots'[l].connected
                   /\ bots'[l].last_connected_at = Some(now)
          /\ Emitted(out', "on_disconnect", l) => ~bots'[l].connected
          /\ bots'[l].connected => ~IsNone(bots'[l].last_connected_at)]_vars

\* a client has connected, lost the connection (on_disconnect: not
\* connected, the timestamp kept) while the other client is connected
C26_Witness ==
    \E l, m \in Configured :
        /\ Emitted(out, "on_disconnect", l)
        /\ ~bots[l].connected /\ ~IsNone(bots[l].last_connected_at)
        /\ bots[m].connected /\ ~IsNone(bots[m].last_connected_at)

----------------------------------------------------------------------------
(* The periodic loop under failures (SpecDigestFail) *)

\* C27 as stated: the periodic loop ends only by cancellation; an exception
\* raised by the gateway or by the presentation in one cycle does not end it
C27_DigestLoopSurvives ==
    [][digest_pc' # digest_pc
          => \/ digest_pc' \in {"sleeping", "sending"}
             \/ digest_pc' = "cancelled" /\ \A l \in Configured : stopped[l]]_vars

----------------------------------------------------------------------------
(* Reconnection (SpecReconnect) *)

\* C28: a client that is in backoff (after a failed attempt or a lost
\* connection) and not stopped eventually starts a new connection attempt,
\* unless it is stopped meanwhile
C28_ReconnectLiveness ==
    \A l \in Labels :
        (pc[l] = "backoff" /\ ~stopped[l]) ~> (pc[l] = "connecting" \/ stopped[l])

\* a client that is not stopped is attempting to connect again after two
\* consecutive failed attempts, the other after a lost connection
C28_Witness ==
    \E l, m \in Configured :
        /\ pc[l] = "connecting" /\ fails[l] >= 2 /\ ~stopped[l]
        /\ pc[m] = "connecting" /\ lost[m] /\ fails[m] = 0 /\ ~stopped[m]

----------------------------------------------------------------------------
(* The stamp of an error event (SpecErrorStamp) *)

\* `data if isinstance(data, str) else str(data)` of a payload
Coerced(data) == IF data.py = "str" THEN data.value ELSE "str(data)"

\* C30: the dispatch of an error event sets last_error to the payload
\* coerced to a string and last_error_at to the time of the dispatch,
\* whether the alert is sent (the stamp is in place while the send is in
\* flight) or suppressed by the cooldown
C30_ErrorStamped ==
    [][\A l \in Configured :
          (Dispatches(l) /\ Head(inbox[l]).event_type = "error")
              => /\ bots'[l].last_error = Some(Coerced(Get(Head(inbox[l]).data)))
                 /\ bots'[l].last_error_at = Some(now)
                 /\ AlertsFor(out', l) = 1 => pc'[l] = "sending"
                 /\ AlertsFor(out', l) = 0 => pc'[l] = "receiving"]_vars

\* an error event with an object payload was dispatched after the last
\* alert and inside its cooldown: no alert, the error stamped with the
\* coerced payload and the later time
C30_Witness ==
    \E l \in Configured :
        /\ Dispatched(out, l, Frame("error", ErrorDict))
        /\ AlertsFor(out, l) = 0
        /\ ~IsNone(last_alert[l]) /\ Get(last_alert[l]) < now
        /\ bots[l].last_error = Some("str(data)")
        /\ bots[l].last_error_at = Some(now)

----------------------------------------------------------------------------
(* Dispatch and the connection flag (SpecClient) *)

\* C31: a step that dispatches an event to on_event for a label is taken by
\* a client that is reading its open connection (after its on_connect and
\* before the loss of the connection), and BotState.connected of the label
\* is true before and after the step
C31_DispatchOnlyWhileConnected ==
    [][\A l \in Configured :
          Emitted(out', "on_event", l)
              => /\ pc[l] = "receiving" /\ pc'[l] \in {"receiving", "sending"}
                 /\ bots[l].connected
                 /\ bots'[l].connected]_vars

\* an event was dispatched for a connected label while the other client
\* has lost its connection, waits in backoff and is not connected
C31_Witness ==
    \E l, m \in Configured :
        /\ Dispatched(out, l, MarketUpdate)
        /\ bots[l].connected /\ delay[l] = floor
        /\ pc[m] = "backoff" /\ ~bots[m].connected /\ lost[m]

----------------------------------------------------------------------------
(* Digest resets, the flag after stop, non-object frames *)

\* C32 as stated: whenever the reset of a digest changes the baseline of a
\* bot that has a summary, the digest sent in that cycle held the delta
\* line of that bot, also when the bot is disconnected at digest time.
\* Stated for the cycles in which the line the digest held for the bot is
\* still the line of its state at the reset, so that a summary arriving
\* during the send (C1) is not what is measured here.
C32_NoUnreportedDelta ==
    [][DigestResets
          => \A l \in Configured :
                (/\ ~IsNone(bots[l].summary)
                 /\ baseline(bots'[l]) # baseline(bots[l])
                 /\ digest_report[l] = format_periodic_update(bots[l]))
                    => /\ ~IsNone(digest_report[l])
                       /\ Get(digest_report[l]).kind = "delta"]_vars

\* C33 as stated: whenever a client waits in backoff or has terminated
\* after stop, BotState.connected of its label is false
C33_ConnectedOnlyWhileOpen ==
    \A l \in Configured : pc[l] \in {"backoff", "done"} => ~bots[l].connected

\* C34 as stated: reading a frame that is valid JSON but no object leaves
\* the connection open, invokes no on_disconnect, starts no backoff and
\* keeps the frames queued behind it
C34_NonObjectDropped ==
    [][\A l \in Configured :
          (Reads(l) /\ Head(inbox[l]).json = "non_object")
              => /\ pc'[l] = "receiving"
                 /\ ~Emitted(out', "on_disconnect", l)
                 /\ inbox'[l] = Tail(inbox[l])]_vars

----------------------------------------------------------------------------
(* The latch against info and summary (SpecOne) *)

\* C35 as stated: a BotState that holds both info and a summary has its
\* initial-summary latch set, whichever of the two arrived first
C35_InfoAndSummaryImplyLatch ==
    \A l \in Configured :
        (~IsNone(bots[l].info) /\ ~IsNone(bots[l].summary))
            => bots[l].initial_summary_sent

----------------------------------------------------------------------------
(* Endpoints whose roundtrips counter never decreases (SpecMonotone) *)

\* the frames of the monotone specification: summaries of both variants
\* with the counters 0, 1, 2, 2, one that does not parse, and info
MonotoneFrames == {Frame("info", InfoOk),
                   Frame("spot_grid_summary", Spot(0, 0, 0)),
                   Frame("spot_grid_summary", Spot(1, 10, 1)),
                   Frame("spot_grid_summary", Spot(2, 25, 3)),
                   Frame("perp_grid_summary", Perp(2, 30, 4)),
                   Frame("spot_grid_summary", SpotNoRoundtrips)}

\* the frames of q that carry a summary that parses
summaries_in(q) == SelectSeq(q, LAMBDA f : SummaryOf(f).ok)

\* the roundtrips counter endpoint l reported last: that of the last summary
\* still queued, else that of the summary held (every frame read is
\* dispatched in this specification), else 0
last_reported(l) ==
    LET q == summaries_in(inbox[l])
    IN IF q # << >> THEN Get(SummaryOf(q[Len(q)]).value).roundtrips
       ELSE IF ~IsNone(bots[l].summary) THEN Get(bots[l].summary).roundtrips
       ELSE 0

\* a frame arrives from an endpoint whose roundtrips counter never decreases
ArriveMonotone(l, f) ==
    /\ SummaryOf(f).ok => Get(SummaryOf(f).value).roundtrips >= last_reported(l)
    /\ Arrive(l, f)

\* one endpoint with a non-decreasing counter, reconnections and the digest
NextMonotone ==
    \/ \E l \in Configured : Start(l)
    \/ \E l \in Configured : ConnectOk(l)
    \/ \E l \in Configured : SleepDone(l)
    \/ \E l \in Configured, f \in MonotoneFrames : ArriveMonotone(l, f)
    \/ \E l \in Configured : Process(l)
    \/ \E l \in Configured : SendDone(l)
    \/ \E l \in Configured : ConnLost(l)
    \/ DigestWake
    \/ DigestSent

SpecMonotone == InitWith({"A"}, 1, 1, MaxQueue) /\ [][NextMonotone]_vars

\* C36: when the roundtrips counter an endpoint reports never decreases,
\* the baseline of a BotState that holds a summary is never above the
\* counter of that summary, and every delta line a digest holds reports
\* new_trades >= 0
C36_BaselineNeverAbove ==
    \A l \in Configured :
        /\ ~IsNone(bots[l].summary)
              => bots[l].prev_roundtrips <= Get(bots[l].summary).roundtrips
        /\ (~IsNone(digest_report[l]) /\ Get(digest_report[l]).kind = "delta")
              => Get(digest_report[l]).new_trades >= 0

\* a digest in flight reports one new trade against a baseline that an
\* earlier reset had raised to 1
C36_Witness ==
    \E l \in Configured :
        /\ digest_pc = "sending"
        /\ ~IsNone(digest_report[l]) /\ Get(digest_report[l]).kind = "delta"
        /\ Get(digest_report[l]).new_trades = 1
        /\ bots[l].prev_roundtrips = 1
        /\ ~bots[l].initial_summary_sent

----------------------------------------------------------------------------
(* Isolation of the labels (SpecDispatch) *)

\* C37: a step that invokes a callback for a label (on_connect, on_event,
\* on_disconnect) leaves the BotState, the cooldown entry, the queue and the
\* position of the client of every other label unchanged; and an error
\* event of a label for which no alert was sent yet sends its alert,
\* whatever alerts were sent for other labels
C37_PerLabelIsolation ==
    [][\A l \in Configured :
          /\ CallbackFor(out', l)
                => \A m \in Configured \ {l} :
                      /\ bots'[m] = bots[m]
                      /\ error_cooldowns'[m] = error_cooldowns[m]
                      /\ inbox'[m] = inbox[m]
                      /\ pc'[m] = pc[m]
          /\ (/\ Dispatches(l)
              /\ Head(inbox[l]).event_type = "error"
              /\ IsNone(last_alert[l]))
                => AlertsFor(out', l) = 1]_vars

\* the first error alert of one label was sent in the latest step while the
\* alert of the other label, sent at the same time, is still in flight
C37_Witness ==
    \E l, m \in Configured :
        /\ l # m
        /\ AlertsFor(out, m) = 1
        /\ pc[l] = "sending" /\ in_flight[l] = "error_alert"
        /\ last_alert[l] = Some(now)
        /\ error_cooldowns[l] = Some(now) /\ error_cooldowns[m] = Some(now)

----------------------------------------------------------------------------
(* What the connection callbacks and the events leave alone *)

\* a BotState without its connection fields
Retained(b) == [b EXCEPT !.connected = FALSE, !.last_connected_at = None]

\* C38: a step that invokes on_connect or on_disconnect for a label changes
\* nothing of its BotState but connected and last_connected_at (info,
\* config, summary, last_summary_at, the error fields, the prev_* baseline
\* and initial_summary_sent are kept), and no cooldown entry
C38_ConnectionCallbacksKeepCache ==
    [][\A l \in Configured :
          (Emitted(out', "on_connect", l) \/ Emitted(out', "on_disconnect", l))
              => /\ Retained(bots'[l]) = Retained(bots[l])
                 /\ error_cooldowns' = error_cooldowns]_vars

\* on_connect was invoked for a label whose BotState holds info, config, a
\* summary, an error, a baseline and the latch from an earlier connection
C38_Witness ==
    \E l \in Configured :
        /\ Emitted(out, "on_connect", l)
        /\ bots[l].connected
        /\ ~IsNone(bots[l].info) /\ ~IsNone(bots[l].config)
        /\ ~IsNone(bots[l].summary) /\ ~IsNone(bots[l].last_summary_at)
        /\ ~IsNone(bots[l].last_error) /\ ~IsNone(error_cooldowns[l])
        /\ bots[l].initial_summary_sent /\ bots[l].prev_roundtrips = 1

\* the step sets the initial-summary latch of l
SetsLatch(l) ==
    /\ Dispatches(l)
    /\ SummaryOf(Head(inbox[l])).ok
    /\ ~bots[l].initial_summary_sent
    /\ bots'[l].initial_summary_sent

\* C39: the prev_* baseline of a BotState changes only in the step that
\* sets its initial-summary latch and in the reset of a periodic digest;
\* info, config, error and ignored events, and summary events dispatched
\* with the latch set, leave it unchanged
C39_BaselineWriters ==
    [][\A l \in Configured :
          baseline(bots'[l]) # baseline(bots[l]) => (SetsLatch(l) \/ DigestResets)]_vars

\* a summary with new counters was dispatched with the latch set: the
\* baseline is still the one of the initial snapshot
C39_Witness ==
    \E l \in Configured :
        /\ Dispatched(out, l, Frame("spot_grid_summary", Spot(2, 25, 3)))
        /\ bots[l].initial_summary_sent
        /\ Get(bots[l].summary).roundtrips = 2
        /\ baseline(bots[l]) = << 1, 10, 1 >>

====
